---- MODULE Spec2Model ----
(***************************************************************************)
(* Desktop recorder service of apps/whispering                              *)
(* (src/apps/whispering/src/lib/services/recorder/desktop.ts):              *)
(* startRecording / stopRecording / cancelRecording driving the capture     *)
(* engine through Tauri commands, the device acquisition policy and the     *)
(* float32 WAV encoder.                                                     *)
(*                                                                          *)
(* Every handler is an async function: it runs up to an awaited engine or   *)
(* file-system call, and resumes when the answer arrives.  One action of    *)
(* the model is one such segment: the awaited call is answered and the      *)
(* handler runs on to its next await or to its return.  Handlers of         *)
(* different kinds may be in flight together, as on the JS event loop.      *)
(***************************************************************************)
EXTENDS Integers, Sequences, FiniteSets, TLC

\* ------------------------------------------------------------------ bounds
\* Longest enumerated device list.
MaxDevices == 3
\* Handler invocations (start + stop + cancel) in one behaviour.
MaxCalls == 3
\* Longest sample array handed to the encoder in SpecWav.
MaxSamples == 2

\* ------------------------------------------------------------ JS values
\* null and undefined, kept apart from every string the program handles.
Null == "<null>"
Undefined == "<undefined>"

\* JS truthiness of a value that is a string, null or undefined.
Truthy(x) == x # Null /\ x # Undefined /\ x # ""

\* Device names as the host reports them; the empty name included.
DeviceIds == {"", "d1", "d2"}
RECURSIVE SeqsUpTo(_, _)
SeqsUpTo(S, n) ==
    IF n = 0 THEN {<<>>}
    ELSE LET shorter == SeqsUpTo(S, n - 1)
         IN shorter \cup {Append(s, x) : s \in {t \in shorter : Len(t) = n - 1}, x \in S}
DeviceLists == SeqsUpTo(DeviceIds, MaxDevices)
\* params.selectedDeviceId: a device identifier or null.
Preferences == DeviceIds \cup {Null}
\* params.recordingId: the caller makes a fresh id for every recording.
RecordingIdNames == <<"r1", "r2", "r3", "r4", "r5", "r6">>
RecordingIdOf(n) == RecordingIdNames[n]
Platforms == {"desktop", "web"}

\* Array.prototype.at(0): the first element, undefined for an empty array.
\* (a variant that yields a device for the empty array too)
At0DropsCheck(s) == IF Len(s) > 0 THEN s[1] ELSE "d1"
\* (a variant that takes the last element, as at(-1) would)
AtLast(s) == IF Len(s) > 0 THEN s[Len(s)] ELSE Undefined
At0(s) == IF Len(s) > 0 THEN s[1] ELSE Undefined

\* Array.prototype.includes on an array of strings.
Includes(s, x) == \E i \in 1..Len(s) : s[i] = x

\* ------------------------------------------------------- Result records
NoOutcome == [outcome |-> Undefined, reason |-> Undefined, fallbackDeviceId |-> Undefined]
NoBlob == <<>>
OkOutcome(o) == [ok |-> TRUE, err |-> Undefined, message |-> Undefined, data |-> o]
ErrOutcome(e, m) == [ok |-> FALSE, err |-> e, message |-> m, data |-> NoOutcome]
Pending == [ok |-> FALSE, err |-> "<pending>", message |-> Undefined, data |-> NoOutcome]

\* ---------------------------------------------------- device acquisition
\* acquireDevice, a closure over deviceIds and selectedDeviceId.
acquireDevice(deviceIds, selectedDeviceId) ==
    LET fallbackDeviceId == At0(deviceIds)
    IN IF ~Truthy(fallbackDeviceId)
       THEN ErrOutcome("no-devices", IF Truthy(selectedDeviceId) THEN "selected" ELSE "any")
       ELSE IF ~Truthy(selectedDeviceId)
       THEN OkOutcome([outcome |-> "fallback", reason |-> "no-device-selected",
                       fallbackDeviceId |-> fallbackDeviceId])
       ELSE IF Includes(deviceIds, selectedDeviceId)
       THEN OkOutcome([outcome |-> "success", reason |-> Undefined,
                       fallbackDeviceId |-> Undefined])
       ELSE OkOutcome([outcome |-> "fallback", reason |-> "preferred-device-unavailable",
                       fallbackDeviceId |-> fallbackDeviceId])

\* The device name handed to init_recording_session.
\* (a variant that always hands over the preference)
EffectiveDeviceAlwaysPreferred(deviceOutcome, selectedDeviceId) == selectedDeviceId
EffectiveDevice(deviceOutcome, selectedDeviceId) ==
    IF deviceOutcome.outcome = "success" THEN selectedDeviceId
    ELSE deviceOutcome.fallbackDeviceId

\* ------------------------------------------------------------ WAV encoder
bitsPerSample == 32
bytesPerSample == bitsPerSample \div 8
headerSize == 44

\* Sample values of the model and their IEEE-754 binary32 encoding, least
\* significant byte first (the platform order of a Float32Array).
Samples == {-1, 0, 1}
Float32Bytes(x) ==
    CASE x = 0 -> <<0, 0, 0, 0>>
      [] x = 1 -> <<0, 0, 128, 63>>
      [] x = -1 -> <<0, 0, 128, 191>>

\* DataView.setUint8 / setUint16 / setUint32 (littleEndian = true): the value
\* is truncated to the field's width, low byte first.
Uint16LE(v) == <<v % 256, (v \div 256) % 256>>
Uint32LE(v) == <<v % 256, (v \div 256) % 256, (v \div 65536) % 256, (v \div 16777216) % 256>>

\* A JS number that may pass 2^31, as its base-256 digits, low digit first.
Digits(v) == Uint32LE(v)
Digit(a, i) == IF i >= 1 /\ i <= Len(a) THEN a[i] ELSE 0
RECURSIVE ConvSum(_, _, _, _)
ConvSum(a, b, k, i) ==
    IF i > k THEN 0 ELSE Digit(a, i) * Digit(b, k + 1 - i) + ConvSum(a, b, k, i + 1)
RECURSIVE TimesFrom(_, _, _, _)
TimesFrom(a, b, k, carry) ==
    IF k > Len(a) + Len(b) THEN <<>>
    ELSE LET t == ConvSum(a, b, k, 1) + carry
         IN <<t % 256>> \o TimesFrom(a, b, k + 1, t \div 256)
\* The product of two numbers, exact (the products here stay below 2^53).
Times(a, b) == TimesFrom(a, b, 1, 0)
\* setUint32 of such a number: its four low digits.
Uint32LEOfDigits(d) == <<Digit(d, 1), Digit(d, 2), Digit(d, 3), Digit(d, 4)>>

\* sampleRate * numChannels * bytesPerSample, the ByteRate argument.
\* (a variant that leaves the channel count out)
ByteRateMono(sampleRate, numChannels) ==
    Times(Digits(sampleRate), Digits(bytesPerSample))
ByteRate(sampleRate, numChannels) ==
    Times(Times(Digits(sampleRate), Digits(numChannels)), Digits(bytesPerSample))
\* numChannels * bytesPerSample, the BlockAlign argument.
BlockAlign(numChannels) == numChannels * bytesPerSample

\* The buffer with `bytes` stored from byte offset `offset` on.
Store(buf, offset, bytes) ==
    [i \in 1..Len(buf) |->
        IF i > offset /\ i <= offset + Len(bytes) THEN bytes[i - offset] ELSE buf[i]]

\* writeString: one setUint8 per character code.
CharCodes(string) ==
    CASE string = "RIFF" -> <<82, 73, 70, 70>>
      [] string = "WAVE" -> <<87, 65, 86, 69>>
      [] string = "fmt " -> <<102, 109, 116, 32>>
      [] string = "data" -> <<100, 97, 116, 97>>
writeString(view, offset, string) == Store(view, offset, CharCodes(string))

\* dataView.set(float32Array) on a Float32Array view starting at headerSize.
RECURSIVE SampleBytes(_)
SampleBytes(float32Array) ==
    IF float32Array = <<>> THEN <<>>
    ELSE Float32Bytes(Head(float32Array)) \o SampleBytes(Tail(float32Array))

\* (a variant whose RIFF size field leaves the header out)
createWavRiffSizeIsDataSize(float32Array, sampleRate, numChannels) ==
    LET dataSize == Len(float32Array) * bytesPerSample
        totalSize == headerSize + dataSize
        b0 == [i \in 1..totalSize |-> 0]
        b1 == writeString(b0, 0, "RIFF")
        b2 == Store(b1, 4, Uint32LE(dataSize))
        b3 == writeString(b2, 8, "WAVE")
        b4 == writeString(b3, 12, "fmt ")
        b5 == Store(b4, 16, Uint32LE(16))
        b6 == Store(b5, 20, Uint16LE(3))
        b7 == Store(b6, 22, Uint16LE(numChannels))
        b8 == Store(b7, 24, Uint32LE(sampleRate))
        b9 == Store(b8, 28, Uint32LEOfDigits(ByteRate(sampleRate, numChannels)))
        b10 == Store(b9, 32, Uint16LE(BlockAlign(numChannels)))
        b11 == Store(b10, 34, Uint16LE(bitsPerSample))
        b12 == writeString(b11, 36, "data")
        b13 == Store(b12, 40, Uint32LE(dataSize))
    IN Store(b13, headerSize, SampleBytes(float32Array))
createWavFromFloat32(float32Array, sampleRate, numChannels) ==
    LET dataSize == Len(float32Array) * bytesPerSample
        totalSize == headerSize + dataSize
        b0 == [i \in 1..totalSize |-> 0]
        b1 == writeString(b0, 0, "RIFF")
        b2 == Store(b1, 4, Uint32LE(totalSize - 8))
        b3 == writeString(b2, 8, "WAVE")
        b4 == writeString(b3, 12, "fmt ")
        b5 == Store(b4, 16, Uint32LE(16))
        b6 == Store(b5, 20, Uint16LE(3))
        b7 == Store(b6, 22, Uint16LE(numChannels))
        b8 == Store(b7, 24, Uint32LE(sampleRate))
        b9 == Store(b8, 28, Uint32LEOfDigits(ByteRate(sampleRate, numChannels)))
        b10 == Store(b9, 32, Uint16LE(BlockAlign(numChannels)))
        b11 == Store(b10, 34, Uint16LE(bitsPerSample))
        b12 == writeString(b11, 36, "data")
        b13 == Store(b12, 40, Uint32LE(dataSize))
    IN Store(b13, headerSize, SampleBytes(float32Array))

\* Reading a little-endian unsigned field back out of a byte buffer.
ReadUint16(buf, offset) == buf[offset + 1] + 256 * buf[offset + 2]
ReadUint32(buf, offset) ==
    buf[offset + 1] + 256 * buf[offset + 2] + 65536 * buf[offset + 3]
        + 16777216 * buf[offset + 4]

\* ================================================================= state
VARIABLES
    engine,   \* the capture engine behind the Tauri commands
    files,    \* the file system: path -> bytes, NoFile where nothing exists
    start,    \* the startRecording invocation: position, locals, result
    stop,     \* the stopRecording invocation
    cancel,   \* the cancelRecording invocation
    ncalls,   \* handler invocations so far
    wav,      \* SpecWav: the encoder's input and output
    acq,      \* SpecAcquire: acquireDevice's input and output
    web       \* SpecWeb: the browser recorder module and its calls

vars == <<engine, files, start, stop, cancel, ncalls, wav, acq, web>>

\* Longest device list an enumerate_recording_devices answer carries in Spec.
MaxSessionDevices == 1
SessionDeviceLists == SeqsUpTo({"", "d1"}, MaxSessionDevices)

FilePaths == {"rec.wav"}
NoFile == <<-1>>
FileContents == {<<82, 73>>, <<87>>}
\* The raw fields of a stop_recording answer.
EngineAudio == {[audioData |-> <<>>, sampleRate |-> 16000, channels |-> 1],
                [audioData |-> <<1>>, sampleRate |-> 16000, channels |-> 1]}

\* ------------------------------------------------ capture engine (Rust side)
\* The session the engine holds.  epoch counts the sessions initialized so far.
EngineIdle(e) == [e EXCEPT !.session = "Idle", !.recordingId = Null, !.output = Undefined]

\* init_recording_session answered with success: a session bound to recordingId,
\* writing to `output` (a file path) or keeping its samples in memory (Undefined).
\* The engine may accept it in any state; the session it held is replaced.
\* (deviceIdentifier, outputFolder and sampleRate are handed through to the
\* engine and decide nothing in the handlers.)
EngineInit(e, recordingId, output) ==
    [session |-> "Initializing", recordingId |-> recordingId, output |-> output,
     epoch |-> e.epoch + 1]

\* start_recording succeeds on an initialized session only.
EngineCanBegin(e) == e.session = "Initializing"
EngineBegin(e) == [e EXCEPT !.session = "Recording"]

\* stop_recording succeeds on a recording session only.
EngineCanStop(e) == e.session = "Recording"
EngineStop(e) == [e EXCEPT !.session = "Stopped"]

\* close_recording_session: the session is gone once close completes, whether
\* it reported success or failure.
EngineClose(e, ok) == EngineIdle(e)

\* get_current_recording_id: the id of the recording in progress, or null.
EngineCurrentRecordingId(e) == IF e.session = "Recording" THEN e.recordingId ELSE Null

\* ------------------------------------------------------------ handler slots
\* One awaited call of a handler, with how it was answered.
Call(cmd, ok) == [cmd |-> cmd, ok |-> ok]
Issued(slot, cmd) == \E i \in 1..Len(slot.issued) : slot.issued[i].cmd = cmd
Failed(slot, cmd) == \E i \in 1..Len(slot.issued) : slot.issued[i] = Call(cmd, FALSE)

\* The context an error of acquireDevice carries.
NoContext == [selectedDeviceId |-> Null, deviceIds |-> <<>>, set |-> FALSE]
StartIdle ==
    [pc |-> "idle", selectedDeviceId |-> Null, recordingId |-> Null, deviceIds |-> <<>>,
     deviceOutcome |-> NoOutcome, deviceIdentifier |-> Undefined, issued |-> <<>>,
     result |-> Pending, context |-> NoContext, entry |-> "Idle", emptyList |-> FALSE]

NoStopResult == [ok |-> FALSE, err |-> "<pending>", blob |-> NoBlob]
\* answer and fileAtRead keep what stop_recording and readFile handed over.
NoAnswer == [audioData |-> <<>>, sampleRate |-> 0, channels |-> 0, filePath |-> Undefined]
StopIdle ==
    [pc |-> "idle", filePath |-> Undefined, blob |-> NoBlob, issued |-> <<>>,
     result |-> NoStopResult, epoch |-> 0,
     answer |-> NoAnswer, fileAtRead |-> NoBlob]

NoCancelResult == [ok |-> FALSE, err |-> "<pending>", status |-> Undefined]
CancelIdle ==
    [pc |-> "idle", recordingId |-> Null, filePath |-> Undefined, issued |-> <<>>,
     result |-> NoCancelResult, afterStop |-> 0, epoch |-> 0, answerPath |-> Undefined,
     midStop |-> 0]

NoWav == [float32Array |-> <<>>, sampleRate |-> 0, numChannels |-> 0, done |-> FALSE, blob |-> <<>>]
NoAcq == [deviceIds |-> <<>>, selectedDeviceId |-> Null, done |-> FALSE, result |-> Pending]

\* The browser recorder module as loaded: `let recorder = null`, no call made.
\* A recorder object is named by the order of its creation, 1, 2, ...; created
\* counts them. cleared is history: a stopRecording has resolved and no
\* startRecording has set the recorder since.
NoRecorder == 0
WebIdle ==
    [recorder |-> NoRecorder, created |-> 0, cleared |-> FALSE,
     starts |-> <<>>, stops |-> <<>>]

SessionInit ==
    /\ engine = [session |-> "Idle", recordingId |-> Null, output |-> Undefined, epoch |-> 0]
    /\ files = [p \in FilePaths |-> NoFile]
    /\ start = StartIdle
    /\ stop = StopIdle
    /\ cancel = CancelIdle
    /\ ncalls = 0
    /\ web = WebIdle

Init ==
    /\ SessionInit
    /\ wav = NoWav
    /\ acq = NoAcq

Free(slot) == slot.pc \in {"idle", "done"}

\* ----------------------------------------------------------- startRecording
\* The call itself: the platform check, then enumerate_recording_devices is
\* awaited.
StartCall ==
    /\ Free(start)
    /\ ncalls < MaxCalls
    /\ ncalls' = ncalls + 1
    /\ \E platform \in Platforms, selectedDeviceId \in Preferences :
          start' = IF platform # "desktop"
                   THEN [StartIdle EXCEPT !.pc = "done", !.entry = engine.session,
                                          !.result = ErrOutcome("non-desktop", Undefined)]
                   ELSE [StartIdle EXCEPT !.pc = "enumerate", !.entry = engine.session,
                                          !.selectedDeviceId = selectedDeviceId,
                                          !.recordingId = RecordingIdOf(ncalls + 1)]
    /\ UNCHANGED <<engine, files, stop, cancel, wav, acq, web>>

\* How startRecording goes on once the device list is there: acquireDevice,
\* the effective device, and init_recording_session awaited next.
\* startRecording returns: its locals are gone, its result stays (and the
\* recordingId the call was made with, to tell its session from others).
StartReturn(s, issued, result) ==
    [StartIdle EXCEPT !.pc = "done", !.issued = issued, !.result = result,
                      !.entry = s.entry, !.emptyList = s.emptyList]

StartAfterEnumerate(s, deviceIds) ==
    LET issued == Append(s.issued, Call("enumerate_recording_devices", TRUE))
        acquired == acquireDevice(deviceIds, s.selectedDeviceId)
    IN IF ~acquired.ok
       THEN [StartReturn(s, issued, acquired)
                EXCEPT !.context = [selectedDeviceId |-> s.selectedDeviceId,
                                    deviceIds |-> deviceIds, set |-> TRUE]]
       ELSE [s EXCEPT !.pc = "init", !.issued = issued, !.deviceIds = deviceIds,
                      !.deviceOutcome = acquired.data,
                      !.deviceIdentifier = EffectiveDevice(acquired.data, s.selectedDeviceId)]

\* enumerate_recording_devices answers.
StartEnumerate ==
    /\ start.pc = "enumerate"
    /\ \/ start' = StartReturn(start, Append(start.issued, Call("enumerate_recording_devices", FALSE)),
                                ErrOutcome("enumerate", Undefined))
       \/ \E deviceIds \in SessionDeviceLists :
             start' = StartAfterEnumerate([start EXCEPT !.emptyList = (deviceIds = <<>>)],
                                          deviceIds)
    /\ UNCHANGED <<engine, files, stop, cancel, ncalls, wav, acq, web>>

\* startRecording after init_recording_session answered.
\* (a variant that goes on to start_recording after a failed init)
StartAfterInitContinues(s, ok) ==
    [s EXCEPT !.pc = "begin", !.issued = Append(@, Call("init_recording_session", ok))]
StartAfterInit(s, ok) ==
    IF ~ok
    THEN StartReturn(s, Append(s.issued, Call("init_recording_session", FALSE)),
                     ErrOutcome("init", Undefined))
    ELSE [s EXCEPT !.pc = "begin", !.issued = Append(@, Call("init_recording_session", TRUE))]

\* init_recording_session answers.
StartInit ==
    /\ start.pc = "init"
    /\ \/ /\ start' = StartAfterInit(start, FALSE)
          /\ UNCHANGED engine
       \/ /\ start' = StartAfterInit(start, TRUE)
          /\ \E output \in FilePaths \cup {Undefined} :
                engine' = EngineInit(engine, start.recordingId, output)
    /\ UNCHANGED <<files, stop, cancel, ncalls, wav, acq, web>>

\* startRecording after start_recording answered: the handler returns.
StartAfterBegin(s, ok) ==
    IF ~ok
    THEN StartReturn(s, Append(s.issued, Call("start_recording", FALSE)),
                     ErrOutcome("begin", Undefined))
    ELSE StartReturn(s, Append(s.issued, Call("start_recording", TRUE)),
                     OkOutcome(s.deviceOutcome))

\* start_recording answers.
StartBegin ==
    /\ start.pc = "begin"
    /\ \/ /\ start' = StartAfterBegin(start, FALSE)
          /\ UNCHANGED engine
       \/ /\ EngineCanBegin(engine)
          /\ start' = StartAfterBegin(start, TRUE)
          /\ engine' = EngineBegin(engine)
    /\ UNCHANGED <<files, stop, cancel, ncalls, wav, acq, web>>

\* ------------------------------------------------------------ stopRecording
StopOk(blob) == [ok |-> TRUE, err |-> Undefined, blob |-> blob]
StopErr(e) == [ok |-> FALSE, err |-> e, blob |-> NoBlob]

\* The call itself: stop_recording is awaited at once.
StopCall ==
    /\ Free(stop)
    /\ ncalls < MaxCalls
    /\ ncalls' = ncalls + 1
    /\ stop' = [StopIdle EXCEPT !.pc = "stop"]
    /\ UNCHANGED <<engine, files, start, cancel, wav, acq, web>>

\* stopRecording after stop_recording answered: an error returns; a file path
\* sends it to readFile; otherwise the samples are encoded and close is next.
\* (a variant that encodes the raw samples whenever there are any)
StopAfterStopPrefersSamples(s, ok, audioRecording) ==
    LET issued == Append(s.issued, Call("stop_recording", ok))
    IN IF ~ok
       THEN [s EXCEPT !.pc = "done", !.issued = issued, !.result = StopErr("stop")]
       ELSE IF Truthy(audioRecording.filePath) /\ audioRecording.audioData = <<>>
       THEN [s EXCEPT !.pc = "read", !.issued = issued, !.filePath = audioRecording.filePath]
       ELSE [s EXCEPT !.pc = "close", !.issued = issued,
                      !.blob = createWavFromFloat32(audioRecording.audioData,
                                                    audioRecording.sampleRate,
                                                    audioRecording.channels)]
StopAfterStop(s, ok, audioRecording) ==
    LET issued == Append(s.issued, Call("stop_recording", ok))
    IN IF ~ok
       THEN [s EXCEPT !.pc = "done", !.issued = issued, !.result = StopErr("stop")]
       ELSE IF Truthy(audioRecording.filePath)
       THEN [s EXCEPT !.pc = "read", !.issued = issued, !.filePath = audioRecording.filePath]
       ELSE [s EXCEPT !.pc = "close", !.issued = issued,
                      !.blob = createWavFromFloat32(audioRecording.audioData,
                                                    audioRecording.sampleRate,
                                                    audioRecording.channels)]

\* What a successful stop_recording may answer, and the file it leaves behind.
StopAnswers(e) ==
    {[audioData |-> a.audioData, sampleRate |-> a.sampleRate, channels |-> a.channels,
      filePath |-> e.output] : a \in EngineAudio}
FilesAfterStop(e, bytes) ==
    IF e.output \in FilePaths THEN [files EXCEPT ![e.output] = bytes] ELSE files

\* stop_recording answers stopRecording.
StopStop ==
    /\ stop.pc = "stop"
    /\ \/ /\ stop' = StopAfterStop(stop, FALSE, Undefined)
          /\ UNCHANGED <<engine, files>>
       \/ /\ EngineCanStop(engine)
          /\ \E audioRecording \in StopAnswers(engine), bytes \in FileContents :
                /\ stop' = [StopAfterStop(stop, TRUE, audioRecording)
                               EXCEPT !.epoch = engine.epoch, !.answer = audioRecording]
                /\ files' = FilesAfterStop(engine, bytes)
          /\ engine' = EngineStop(engine)
    /\ UNCHANGED <<start, cancel, ncalls, wav, acq, web>>

\* stopRecording after readFile settled: a rejection returns the read error.
\* (a variant that goes on with whatever bytes it has after a failed read)
StopAfterReadKeepsGoing(s, ok, fileBytes) ==
    [s EXCEPT !.pc = "close", !.issued = Append(@, Call("readFile", ok)),
              !.blob = fileBytes]
StopAfterRead(s, ok, fileBytes) ==
    IF ~ok
    THEN [s EXCEPT !.pc = "done", !.issued = Append(@, Call("readFile", FALSE)),
                   !.result = StopErr("read")]
    ELSE [s EXCEPT !.pc = "close", !.issued = Append(@, Call("readFile", TRUE)),
                   !.blob = fileBytes]

\* readFile settles.
StopRead ==
    /\ stop.pc = "read"
    /\ \/ stop' = StopAfterRead(stop, FALSE, NoBlob)
       \/ /\ files[stop.filePath] # NoFile
          /\ stop' = [StopAfterRead(stop, TRUE, files[stop.filePath])
                         EXCEPT !.fileAtRead = files[stop.filePath]]
    /\ UNCHANGED <<engine, files, start, cancel, ncalls, wav, acq, web>>

\* stopRecording after close_recording_session answered: a close error is
\* logged and the blob is returned all the same.
\* (a variant that returns the close error)
StopAfterClosePropagates(s, ok) ==
    [s EXCEPT !.pc = "done", !.issued = Append(@, Call("close_recording_session", ok)),
              !.result = IF ok THEN StopOk(s.blob) ELSE StopErr("close")]
StopAfterClose(s, ok) ==
    [s EXCEPT !.pc = "done", !.issued = Append(@, Call("close_recording_session", ok)),
              !.result = StopOk(s.blob)]

\* close_recording_session answers stopRecording.
StopClose ==
    /\ stop.pc = "close"
    /\ \E ok \in BOOLEAN :
          /\ stop' = StopAfterClose(stop, ok)
          /\ engine' = EngineClose(engine, ok)
    /\ UNCHANGED <<files, start, cancel, ncalls, wav, acq, web>>

\* ---------------------------------------------------------- cancelRecording
CancelOk(status) == [ok |-> TRUE, err |-> Undefined, status |-> status]
CancelErr(e) == [ok |-> FALSE, err |-> e, status |-> Undefined]

\* The epoch of the session a completed, successful stopRecording has stopped
\* and closed; 0 when there is none.
StoppedEpoch == IF stop.pc = "done" /\ stop.result.ok THEN stop.epoch ELSE 0

\* The call itself: get_current_recording_id is awaited at once.
\* The epoch of the session an in-flight stopRecording has stopped and not yet
\* closed (its stop_recording answered, its close not yet); 0 when there is
\* none.
StoppingEpoch == IF stop.pc \in {"read", "close"} THEN stop.epoch ELSE 0

CancelCall ==
    /\ Free(cancel)
    /\ ncalls < MaxCalls
    /\ ncalls' = ncalls + 1
    /\ cancel' = [CancelIdle EXCEPT !.pc = "getid", !.afterStop = StoppedEpoch,
                                     !.midStop = StoppingEpoch]
    /\ UNCHANGED <<engine, files, start, stop, wav, acq, web>>

\* cancelRecording after get_current_recording_id answered: an error returns,
\* no recording id returns no-recording, otherwise stop_recording is next.
\* (a variant without the no-recording return)
CancelAfterGetIdIgnoresId(c, ok, recordingId) ==
    LET issued == Append(c.issued, Call("get_current_recording_id", ok))
    IN IF ~ok
       THEN [c EXCEPT !.pc = "done", !.issued = issued, !.result = CancelErr("get-id")]
       ELSE [c EXCEPT !.pc = "stop", !.issued = issued, !.recordingId = recordingId]
\* (a variant that tests the id against undefined only)
CancelAfterGetIdTestsUndefined(c, ok, recordingId) ==
    LET issued == Append(c.issued, Call("get_current_recording_id", ok))
    IN IF ~ok
       THEN [c EXCEPT !.pc = "done", !.issued = issued, !.result = CancelErr("get-id")]
       ELSE IF recordingId = Undefined
       THEN [c EXCEPT !.pc = "done", !.issued = issued, !.recordingId = recordingId,
                      !.result = CancelOk("no-recording")]
       ELSE [c EXCEPT !.pc = "stop", !.issued = issued, !.recordingId = recordingId]
\* (a variant that closes the session even when no id is reported)
CancelAfterGetIdClosesAnyway(c, ok, recordingId) ==
    LET issued == Append(c.issued, Call("get_current_recording_id", ok))
    IN IF ~ok
       THEN [c EXCEPT !.pc = "done", !.issued = issued, !.result = CancelErr("get-id")]
       ELSE IF ~Truthy(recordingId)
       THEN [c EXCEPT !.pc = "close", !.issued = issued, !.recordingId = recordingId]
       ELSE [c EXCEPT !.pc = "stop", !.issued = issued, !.recordingId = recordingId]
CancelAfterGetId(c, ok, recordingId) ==
    LET issued == Append(c.issued, Call("get_current_recording_id", ok))
    IN IF ~ok
       THEN [c EXCEPT !.pc = "done", !.issued = issued, !.result = CancelErr("get-id")]
       ELSE IF ~Truthy(recordingId)
       THEN [c EXCEPT !.pc = "done", !.issued = issued, !.recordingId = recordingId,
                      !.result = CancelOk("no-recording")]
       ELSE [c EXCEPT !.pc = "stop", !.issued = issued, !.recordingId = recordingId]

\* get_current_recording_id answers.
CancelGetId ==
    /\ cancel.pc = "getid"
    /\ \/ cancel' = CancelAfterGetId(cancel, FALSE, Null)
       \/ cancel' = [CancelAfterGetId(cancel, TRUE, EngineCurrentRecordingId(engine))
                        EXCEPT !.epoch = engine.epoch]
    /\ UNCHANGED <<engine, files, start, stop, ncalls, wav, acq, web>>

\* cancelRecording after stop_recording answered: its error is dropped; a file
\* path in the answer sends it to remove, anything else straight to close.
\* (a variant that leaves the file where it is)
CancelAfterStopNeverRemoves(c, ok, audioRecording) ==
    [c EXCEPT !.pc = "close", !.issued = Append(@, Call("stop_recording", ok))]
CancelAfterStop(c, ok, audioRecording) ==
    LET issued == Append(c.issued, Call("stop_recording", ok))
    IN IF ok /\ Truthy(audioRecording.filePath)
       THEN [c EXCEPT !.pc = "remove", !.issued = issued,
                      !.filePath = audioRecording.filePath]
       ELSE [c EXCEPT !.pc = "close", !.issued = issued]

\* stop_recording answers cancelRecording.
CancelStop ==
    /\ cancel.pc = "stop"
    /\ \/ /\ cancel' = CancelAfterStop(cancel, FALSE, Undefined)
          /\ UNCHANGED <<engine, files>>
       \/ /\ EngineCanStop(engine)
          /\ \E audioRecording \in StopAnswers(engine), bytes \in FileContents :
                /\ cancel' = [CancelAfterStop(cancel, TRUE, audioRecording)
                                 EXCEPT !.answerPath = audioRecording.filePath]
                /\ files' = FilesAfterStop(engine, bytes)
          /\ engine' = EngineStop(engine)
    /\ UNCHANGED <<start, stop, ncalls, wav, acq, web>>

\* cancelRecording after remove settled: a rejection is logged.
\* (a variant that reports cancelled right after remove, without the close)
CancelAfterRemoveSkipsClose(c, ok) ==
    [c EXCEPT !.pc = "done", !.issued = Append(@, Call("remove", ok)),
              !.result = CancelOk("cancelled")]
CancelAfterRemove(c, ok) ==
    [c EXCEPT !.pc = "close", !.issued = Append(@, Call("remove", ok))]

\* remove settles.
CancelRemove ==
    /\ cancel.pc = "remove"
    /\ \/ /\ cancel' = CancelAfterRemove(cancel, FALSE)
          /\ UNCHANGED files
       \/ /\ files[cancel.filePath] # NoFile
          /\ cancel' = CancelAfterRemove(cancel, TRUE)
          /\ files' = [files EXCEPT ![cancel.filePath] = NoFile]
    /\ UNCHANGED <<engine, start, stop, ncalls, wav, acq, web>>

\* cancelRecording after close_recording_session answered: a close error is
\* logged and the cancel reports cancelled all the same.
\* (a variant that returns the close error)
CancelAfterClosePropagates(c, ok) ==
    [c EXCEPT !.pc = "done", !.issued = Append(@, Call("close_recording_session", ok)),
              !.result = IF ok THEN CancelOk("cancelled") ELSE CancelErr("close")]
CancelAfterClose(c, ok) ==
    [c EXCEPT !.pc = "done", !.issued = Append(@, Call("close_recording_session", ok)),
              !.result = CancelOk("cancelled")]

\* close_recording_session answers cancelRecording.
CancelClose ==
    /\ cancel.pc = "close"
    /\ \E ok \in BOOLEAN :
          /\ cancel' = CancelAfterClose(cancel, ok)
          /\ engine' = EngineClose(engine, ok)
    /\ UNCHANGED <<files, start, stop, ncalls, wav, acq, web>>

\* --------------------------------------------------------- specification
Next ==
    \/ StartCall
    \/ StartEnumerate
    \/ StartInit
    \/ StartBegin
    \/ StopCall
    \/ StopStop
    \/ StopRead
    \/ StopClose
    \/ CancelCall
    \/ CancelGetId
    \/ CancelStop
    \/ CancelRemove
    \/ CancelClose

Spec == Init /\ [][Next]_vars

\* ------------------------------------------- acquireDevice on its own
\* The device lists and preferences acquireDevice is applied to.
InitAcquire ==
    /\ SessionInit
    /\ wav = NoWav
    /\ \E deviceIds \in DeviceLists, selectedDeviceId \in Preferences :
          acq = [NoAcq EXCEPT !.deviceIds = deviceIds, !.selectedDeviceId = selectedDeviceId]

Acquire ==
    /\ ~acq.done
    /\ acq' = [acq EXCEPT !.done = TRUE,
                          !.result = acquireDevice(acq.deviceIds, acq.selectedDeviceId)]
    /\ UNCHANGED <<engine, files, start, stop, cancel, ncalls, wav, web>>

NextAcquire == Acquire

SpecAcquire == InitAcquire /\ [][NextAcquire]_vars

\* -------------------------------------- createWavFromFloat32 on its own
\* 192000 Hz with 8192 channels passes 2^32 bytes per second; 16384 channels
\* pass 2^16 bytes per frame.
SampleRates == {8000, 16000, 44100, 48000, 192000}
ChannelCounts == {1, 2, 8192, 16384}

InitWav ==
    /\ SessionInit
    /\ acq = NoAcq
    /\ \E float32Array \in SeqsUpTo(Samples, MaxSamples), sampleRate \in SampleRates,
          numChannels \in ChannelCounts :
          wav = [NoWav EXCEPT !.float32Array = float32Array, !.sampleRate = sampleRate,
                              !.numChannels = numChannels]

Encode ==
    /\ ~wav.done
    /\ wav' = [wav EXCEPT !.done = TRUE,
                          !.blob = createWavFromFloat32(wav.float32Array, wav.sampleRate,
                                                        wav.numChannels)]
    /\ UNCHANGED <<engine, files, start, stop, cancel, ncalls, acq, web>>

NextWav == Encode

SpecWav == InitWav /\ [][NextWav]_vars

\* ------------------------------------------- the browser recorder module
\* Calls of startRecording and stopRecording made on the module, in SpecWeb.
MaxWebCalls == 4

\* The message of the error stopRecording throws and rejects with.
NotInitialized == "Recorder is not initialized."

\* startRecording up to its await: getUserMedia is pending.
WebStartRecording(w) ==
    [w EXCEPT !.starts = Append(@, [st |-> "pending", rec |-> NoRecorder])]

\* startRecording once getUserMedia has resolved: a new RecordRTC is assigned
\* to recorder, whatever it held, and started.
WebStartRecordingGranted(w, i) ==
    [w EXCEPT !.created = @ + 1,
              !.recorder = w.created + 1,
              !.cleared = FALSE,
              !.starts[i] = [st |-> "done", rec |-> w.created + 1]]

\* getUserMedia rejects: startRecording rejects, recorder is not touched.
WebStartRecordingDenied(w, i) ==
    [w EXCEPT !.starts[i] = [st |-> "failed", rec |-> NoRecorder]]

\* stopRecording's promise executor: it throws when recorder is null, which
\* rejects the promise; otherwise it hands its callback to
\* recorder.stopRecording. on is the recorder the callback was handed to; the
\* record's cleared keeps the module's cleared as it is when the call settles.
WebStopRecording(w) ==
    IF w.recorder = NoRecorder
    THEN [w EXCEPT !.stops = Append(@, [st |-> "rejected", err |-> NotInitialized,
                                         on |-> NoRecorder, blob |-> NoRecorder,
                                         cleared |-> w.cleared])]
    ELSE [w EXCEPT !.stops = Append(@, [st |-> "pending", err |-> Undefined,
                                         on |-> w.recorder, blob |-> NoRecorder,
                                         cleared |-> FALSE])]

\* The callback handed to recorder.stopRecording runs: it rejects when
\* recorder is null by now; otherwise it takes getBlob() of the recorder held
\* now, destroys it, sets recorder to null and resolves with the blob. A blob
\* is named by the recorder it comes from.
\* (a variant that leaves recorder set after resolving)
WebStopRecordingCallbackKeepsRecorder(w, j) ==
    IF w.recorder = NoRecorder
    THEN [w EXCEPT !.stops[j] = [@ EXCEPT !.st = "rejected", !.err = NotInitialized,
                                          !.cleared = w.cleared]]
    ELSE [w EXCEPT !.stops[j] = [@ EXCEPT !.st = "resolved", !.blob = w.recorder,
                                          !.cleared = w.cleared],
                   !.cleared = TRUE]
WebStopRecordingCallback(w, j) ==
    IF w.recorder = NoRecorder
    THEN [w EXCEPT !.stops[j] = [@ EXCEPT !.st = "rejected", !.err = NotInitialized,
                                          !.cleared = w.cleared]]
    ELSE [w EXCEPT !.stops[j] = [@ EXCEPT !.st = "resolved", !.blob = w.recorder,
                                          !.cleared = w.cleared],
                   !.recorder = NoRecorder,
                   !.cleared = TRUE]

WebCalls == Len(web.starts) + Len(web.stops)

\* startRecording is called.
WebStart ==
    /\ WebCalls < MaxWebCalls
    /\ web' = WebStartRecording(web)
    /\ UNCHANGED <<engine, files, start, stop, cancel, ncalls, wav, acq>>

\* getUserMedia resolves for a pending startRecording.
WebGrant ==
    /\ \E i \in 1..Len(web.starts) :
          /\ web.starts[i].st = "pending"
          /\ web' = WebStartRecordingGranted(web, i)
    /\ UNCHANGED <<engine, files, start, stop, cancel, ncalls, wav, acq>>

\* getUserMedia rejects for a pending startRecording.
WebDeny ==
    /\ \E i \in 1..Len(web.starts) :
          /\ web.starts[i].st = "pending"
          /\ web' = WebStartRecordingDenied(web, i)
    /\ UNCHANGED <<engine, files, start, stop, cancel, ncalls, wav, acq>>

\* stopRecording is called.
WebStop ==
    /\ WebCalls < MaxWebCalls
    /\ web' = WebStopRecording(web)
    /\ UNCHANGED <<engine, files, start, stop, cancel, ncalls, wav, acq>>

\* RecordRTC runs the callback of a pending stopRecording; the callbacks of
\* several pending calls run in any order.
WebCallback ==
    /\ \E j \in 1..Len(web.stops) :
          /\ web.stops[j].st = "pending"
          /\ web' = WebStopRecordingCallback(web, j)
    /\ UNCHANGED <<engine, files, start, stop, cancel, ncalls, wav, acq>>

NextWeb ==
    \/ WebStart
    \/ WebGrant
    \/ WebDeny
    \/ WebStop
    \/ WebCallback

SpecWeb == Init /\ [][NextWeb]_vars

\* ================================================================ claims
Last(seq) == seq[Len(seq)]
\* The handler's first awaited call was answered with success.
FirstAnswered(slot) == Len(slot.issued) >= 1 /\ slot.issued[1].ok

\* C1: when cancelRecording's get_current_recording_id query reports no
\* current recording id, cancelRecording has returned the no-recording status
\* and has issued nothing but that query: no stop_recording, no remove, no
\* close_recording_session.
C1_NoRecordingIsNoOp ==
    (FirstAnswered(cancel) /\ ~Truthy(cancel.recordingId))
        => /\ cancel.pc = "done"
           /\ cancel.result = CancelOk("no-recording")
           /\ cancel.issued = <<Call("get_current_recording_id", TRUE)>>
C1_Witness ==
    /\ cancel.pc = "done"
    /\ FirstAnswered(cancel)
    /\ cancel.recordingId = Null
    /\ cancel.result.status = "no-recording"

\* C2: once stopRecording's stop_recording succeeded and the audio was
\* produced (it reached close_recording_session), stopRecording returns that
\* audio as a success, whether close_recording_session succeeded or failed.
C2_CloseFailureKeepsAudio ==
    (stop.pc = "done" /\ Issued(stop, "close_recording_session"))
        => /\ stop.blob # NoBlob
           /\ stop.result = StopOk(stop.blob)
C2_Witness ==
    /\ stop.pc = "done"
    /\ Failed(stop, "close_recording_session")
    /\ stop.result.ok
    /\ stop.result.blob # NoBlob

\* C3: in startRecording and stopRecording a failed enumerate, init, begin or
\* stop call is the last call of the operation, which has returned an error;
\* and a failed device acquisition is followed by no init call.
FailureEnds(slot, cmds) ==
    \A i \in 1..Len(slot.issued) :
        (slot.issued[i].cmd \in cmds /\ ~slot.issued[i].ok)
            => /\ i = Len(slot.issued)
               /\ slot.pc = "done"
               /\ ~slot.result.ok
C3_FailureAborts ==
    /\ FailureEnds(start, {"enumerate_recording_devices", "init_recording_session",
                           "start_recording"})
    /\ FailureEnds(stop, {"stop_recording"})
    /\ start.result.err = "no-devices"
          => (start.pc = "done" /\ ~Issued(start, "init_recording_session"))
C3_Witness ==
    /\ start.pc = "done"
    /\ start.result.err = "init"
    /\ Failed(start, "init_recording_session")
    /\ ~Issued(start, "start_recording")

\* C4: a startRecording called while the session is Recording returns an
\* error and issues neither init_recording_session nor start_recording.
C4_StartWhileRecordingFailsFast ==
    start.entry = "Recording"
        => /\ ~Issued(start, "init_recording_session")
           /\ ~Issued(start, "start_recording")
           /\ start.pc = "done" => ~start.result.ok

\* C5: a cancelRecording called after a stopRecording has completed with its
\* audio, whose query is answered while the engine still holds that same
\* session epoch, returns no-recording and issues nothing but the query,
\* whatever the stop's close_recording_session answered.
AfterCompletedStop ==
    /\ cancel.afterStop # 0
    /\ FirstAnswered(cancel)
    /\ cancel.epoch = cancel.afterStop
C5_CancelAfterStopIsNoOp ==
    AfterCompletedStop
        => /\ cancel.pc = "done"
           /\ cancel.result = CancelOk("no-recording")
           /\ cancel.issued = <<Call("get_current_recording_id", TRUE)>>
C5_Witness ==
    /\ AfterCompletedStop
    /\ cancel.pc = "done"
    /\ stop.pc = "done"
    /\ stop.epoch = cancel.epoch
    /\ Failed(stop, "close_recording_session")

\* C6: cancelRecording returns an error exactly when its first query failed;
\* once the query reported a recording id it returns cancelled, whatever
\* stop_recording, remove and close_recording_session answered.
C6_CancelOnlyFailsOnQuery ==
    cancel.pc = "done"
        => /\ ~cancel.result.ok <=> Failed(cancel, "get_current_recording_id")
           /\ Truthy(cancel.recordingId) => cancel.result = CancelOk("cancelled")
C6_Witness ==
    /\ cancel.pc = "done"
    /\ Truthy(cancel.recordingId)
    /\ Failed(cancel, "remove")
    /\ Failed(cancel, "close_recording_session")
    /\ cancel.result.status = "cancelled"

\* C7: when the enumerated device list is empty, with or without a preferred
\* device, startRecording has returned the no-devices error and has issued no
\* init_recording_session.
C7_EmptyListFails ==
    start.emptyList
        => /\ start.pc = "done"
           /\ start.result.err = "no-devices"
           /\ ~Issued(start, "init_recording_session")
C7_Witness ==
    /\ start.emptyList
    /\ start.result.err = "no-devices"
    /\ start.context.deviceIds = <<>>
    /\ start.context.selectedDeviceId = "d1"

\* C8: for a non-empty device list acquireDevice returns Success exactly when
\* a preferred device was given and is an entry of the list, at any position.
C8_SuccessIffMember ==
    (acq.done /\ Len(acq.deviceIds) > 0)
        => ((acq.result.ok /\ acq.result.data.outcome = "success")
               <=> (acq.selectedDeviceId # Null
                       /\ Includes(acq.deviceIds, acq.selectedDeviceId)))

\* C9: a Fallback outcome carries the first entry of the enumerated list; its
\* reason is no-device-selected when no preference was given and
\* preferred-device-unavailable when a preference was given that is not in
\* the list.
IsFallback == acq.done /\ acq.result.ok /\ acq.result.data.outcome = "fallback"
C10_WavSizes ==
    wav.done
        => LET n == Len(wav.float32Array)
           IN /\ Len(wav.blob) = 44 + 4 * n
              /\ ReadUint32(wav.blob, 4) = Len(wav.blob) - 8
              /\ ReadUint32(wav.blob, 40) = 4 * n
C10_Witness ==
    /\ wav.done
    /\ Len(wav.float32Array) = 2
    /\ Len(wav.blob) = 52
    /\ ReadUint32(wav.blob, 4) = 44
    /\ ReadUint32(wav.blob, 40) = 8

\* The bytes of a header field, and whether a number fits a field of n bytes.
Field(buf, offset, n) == [i \in 1..n |-> buf[offset + i]]
Fits(d, n) == \A i \in 1..Len(d) : i > n => d[i] = 0
HeaderFormulas ==
    [channels |-> Digits(wav.numChannels),
     sampleRate |-> Digits(wav.sampleRate),
     byteRate |-> Times(Times(Digits(wav.sampleRate), Digits(wav.numChannels)), <<4>>),
     blockAlign |-> Times(Digits(wav.numChannels), <<4>>)]
Low(d, n) == [i \in 1..n |-> Digit(d, i)]

\* C11: for every sample rate R > 0 and channel count C > 0 the header fields
\* read back equal the formulas exactly: format code 3, channels C, sample
\* rate R, byte rate R*C*4, block align C*4, bits per sample 32, also where a
\* product passes the width of its field.
C11_HeaderFieldsExact ==
    wav.done
        => /\ Field(wav.blob, 20, 2) = <<3, 0>>
           /\ Field(wav.blob, 34, 2) = <<32, 0>>
           /\ Fits(HeaderFormulas.channels, 2)
           /\ Field(wav.blob, 22, 2) = Low(HeaderFormulas.channels, 2)
           /\ Fits(HeaderFormulas.sampleRate, 4)
           /\ Field(wav.blob, 24, 4) = Low(HeaderFormulas.sampleRate, 4)
           /\ Fits(HeaderFormulas.byteRate, 4)
           /\ Field(wav.blob, 28, 4) = Low(HeaderFormulas.byteRate, 4)
           /\ Fits(HeaderFormulas.blockAlign, 2)
           /\ Field(wav.blob, 32, 2) = Low(HeaderFormulas.blockAlign, 2)
\* C11 as amended: each field reads the formula reduced to the field's width
\* (modulo 2^16 or 2^32), hence the formula itself whenever it fits the field.
C11_HeaderFieldsModWidth ==
    wav.done
        => /\ Field(wav.blob, 20, 2) = <<3, 0>>
           /\ Field(wav.blob, 34, 2) = <<32, 0>>
           /\ Field(wav.blob, 22, 2) = Low(HeaderFormulas.channels, 2)
           /\ Field(wav.blob, 24, 4) = Low(HeaderFormulas.sampleRate, 4)
           /\ Field(wav.blob, 28, 4) = Low(HeaderFormulas.byteRate, 4)
           /\ Field(wav.blob, 32, 2) = Low(HeaderFormulas.blockAlign, 2)
\* 192000 * 8192 * 4 = 6291456000 = 2^32 + 1996488704 (bytes 0, 0, 0, 119).
C11_Witness ==
    /\ wav.done
    /\ wav.sampleRate = 192000
    /\ wav.numChannels = 8192
    /\ Field(wav.blob, 28, 4) = <<0, 0, 0, 119>>
    /\ Field(wav.blob, 32, 2) = <<0, 128>>

\* C12: a stopRecording that returns Ok returns audio from one source: when the
\* stop_recording answer carries a file path, the bytes readFile handed over,
\* unchanged, and not the encoding of the raw fields (it is shorter than the
\* header of one), even when there are raw samples; otherwise the encoding of
\* the raw samples, with no readFile.
EncodedOf(answer) ==
    createWavFromFloat32(answer.audioData, answer.sampleRate, answer.channels)
EncodedAnswer == EncodedOf(stop.answer)
C12_OneAudioSource ==
    [][(stop.pc # "done" /\ stop'.pc = "done" /\ stop'.result.ok)
          => IF stop'.answer.filePath \in FilePaths
             THEN /\ Issued(stop', "readFile")
                  /\ stop'.fileAtRead \in FileContents
                  /\ stop'.result.blob = stop'.fileAtRead
                  /\ Len(stop'.result.blob) < headerSize
             ELSE /\ ~Issued(stop', "readFile")
                  /\ stop'.result.blob = EncodedOf(stop'.answer)
      ]_vars
C12_Witness ==
    /\ stop.pc = "done"
    /\ stop.result.ok
    /\ stop.answer.filePath = "rec.wav"
    /\ stop.answer.audioData = <<1>>
    /\ stop.result.blob = stop.fileAtRead
    /\ stop.result.blob \in FileContents

\* C13: a cancelRecording that found an active recording issues, after its
\* query, stop_recording, then remove exactly when the stop answer carries a
\* file path, then close_recording_session: close once, remove at most once;
\* it returns the cancelled status, a result that carries no audio.
Cmds(slot) == [i \in 1..Len(slot.issued) |-> slot.issued[i].cmd]
C13_CancelOrder ==
    (cancel.pc = "done" /\ Truthy(cancel.recordingId))
        => /\ Cmds(cancel) =
                IF cancel.answerPath \in FilePaths
                THEN <<"get_current_recording_id", "stop_recording", "remove",
                       "close_recording_session">>
                ELSE <<"get_current_recording_id", "stop_recording",
                       "close_recording_session">>
           /\ cancel.result = [ok |-> TRUE, err |-> Undefined, status |-> "cancelled"]
C13_Witness ==
    /\ cancel.pc = "done"
    /\ Truthy(cancel.recordingId)
    /\ cancel.answerPath = "rec.wav"
    /\ Cmds(cancel) = <<"get_current_recording_id", "stop_recording", "remove",
                        "close_recording_session">>
    /\ cancel.result.status = "cancelled"

\* C14: when stopRecording's stop_recording call or its readFile fails,
\* stopRecording has returned an error and its result carries no audio blob.
C14_RetrievalFailureReturnsNoBlob ==
    (Failed(stop, "stop_recording") \/ Failed(stop, "readFile"))
        => /\ stop.pc = "done"
           /\ ~stop.result.ok
           /\ stop.result.err \in {"stop", "read"}
           /\ stop.result.blob = NoBlob
C14_Witness ==
    /\ stop.pc = "done"
    /\ Failed(stop, "readFile")
    /\ stop.result.err = "read"
    /\ stop.result.blob = NoBlob

\* C15: when startRecording returns an error the engine holds no session
\* that this call initialized and left unclosed.
C15_FailedStartLeavesNoSession ==
    [][(start.pc # "done" /\ start'.pc = "done" /\ ~start'.result.ok)
          => ~(engine'.session # "Idle" /\ engine'.recordingId = start.recordingId)
      ]_vars

C17_StopIssuedOnlyWhileRecording ==
    [][/\ (stop.pc # "stop" /\ stop'.pc = "stop") => engine.session = "Recording"
       /\ (cancel.pc # "stop" /\ cancel'.pc = "stop") => engine.session = "Recording"
      ]_vars

\* C18: while init_recording_session is issued (and from then on until
\* startRecording returns) the device identifier handed to it is the
\* preference when the acquisition outcome is success and the fallback device
\* otherwise, and it is one of the device ids enumerated in this call.
C18_InitDeviceIsListed ==
    start.pc \in {"init", "begin"}
        => /\ start.deviceIdentifier =
                 IF start.deviceOutcome.outcome = "success"
                 THEN start.selectedDeviceId
                 ELSE start.deviceOutcome.fallbackDeviceId
           /\ start.deviceOutcome.outcome \in {"success", "fallback"}
           /\ Includes(start.deviceIds, start.deviceIdentifier)
\* init_recording_session is under way with the fallback device, the
\* preference not being in the list.
C18_Witness ==
    /\ start.pc = "init"
    /\ start.selectedDeviceId = "d2"
    /\ start.deviceOutcome.outcome = "fallback"
    /\ start.deviceOutcome.reason = "preferred-device-unavailable"
    /\ start.deviceIdentifier = "d1"
    /\ start.deviceIds = <<"d1">>

\* The number of times a handler has issued a command.
Count(slot, cmd) == Cardinality({i \in 1..Len(slot.issued) : slot.issued[i].cmd = cmd})
\* cancelRecording was called while a stopRecording was between the answer of
\* its stop_recording and its close, and its id query has been answered on
\* that same session.
CancelMidStop ==
    /\ cancel.midStop # 0
    /\ cancel.midStop = stop.epoch
    /\ FirstAnswered(cancel)
    /\ cancel.epoch = cancel.midStop

C20_NonEmptyListAcquires ==
    acq.done
        => /\ acq.deviceIds # <<>>
                 => (acq.result.ok /\ acq.result.data.outcome \in {"success", "fallback"})
           /\ ~acq.result.ok => acq.deviceIds = <<>>

\* C21: in the browser recorder module a stopRecording called while no
\* recorder is held is rejected with 'Recorder is not initialized.', and so is
\* one whose callback runs while none is held; a stopRecording that resolves
\* leaves recorder null until a startRecording sets it again; every blob
\* handed out comes from a recorder a startRecording created, and no two
\* resolved calls hand out the blob of the same recorder; a stopRecording that
\* settles after another has resolved, with no startRecording having set the
\* recorder in between, is rejected.
Settled(j) == web.stops[j].st \in {"resolved", "rejected"}
C21_OneBlobPerStart ==
    /\ web.cleared => web.recorder = NoRecorder
    /\ \A j \in 1..Len(web.stops) :
          /\ web.stops[j].on = NoRecorder
                => (web.stops[j].st = "rejected" /\ web.stops[j].err = NotInitialized)
          /\ web.stops[j].st = "rejected"
                => (web.stops[j].err = NotInitialized /\ web.stops[j].blob = NoRecorder)
          /\ web.stops[j].st = "resolved"
                => /\ web.stops[j].blob # NoRecorder
                   /\ \E i \in 1..Len(web.starts) :
                         web.starts[i] = [st |-> "done", rec |-> web.stops[j].blob]
          /\ (Settled(j) /\ web.stops[j].cleared)
                => (web.stops[j].st = "rejected" /\ web.stops[j].err = NotInitialized)
    /\ \A j, k \in 1..Len(web.stops) :
          (j # k /\ web.stops[j].st = "resolved" /\ web.stops[k].st = "resolved")
              => web.stops[j].blob # web.stops[k].blob
\* One startRecording, then a stopRecording that resolved with its blob, then
\* a second stopRecording, rejected.
C21_Witness ==
    /\ Len(web.starts) = 1
    /\ Len(web.stops) = 2
    /\ web.stops[1].st = "resolved"
    /\ web.stops[1].blob = web.starts[1].rec
    /\ web.stops[2].st = "rejected"
    /\ web.stops[2].on = NoRecorder
    /\ web.stops[2].cleared
    /\ web.stops[2].err = NotInitialized

====
